---- MODULE Spec2Model ----
(***************************************************************************)
(* A model of src/main.py: the two handlers of the Homework API.           *)
(*                                                                         *)
(*   calculate      POST /calculate/  (asyncio.gather fan-out/fan-in of     *)
(*                  square_with_delay, then a sequential rerun)            *)
(*   create_appeal  POST /appeal/     (pydantic validation of Appeal, then  *)
(*                  one JSON file per request under appeals/)              *)
(*                                                                         *)
(* The two handlers share no state, so each has its own specification:     *)
(* SpecCalc for calculate, SpecValidate for the Appeal validators alone,   *)
(* SpecAppeal for create_appeal on a file system that never fails and      *)
(* SpecAppealFs for create_appeal on a file system that may fail.          *)
(***************************************************************************)
EXTENDS Integers, Sequences, FiniteSets, TLC

\* ------------------------------------------------------------------------
\* Bounds of the model
\* ------------------------------------------------------------------------

\* Longest numbers / delays list of a request.
MaxLen == 2

\* Latest the event loop may wake a timer after it is due, in milliseconds
\* (0 is the exact logical-time model).
MaxLate == 1

\* Largest finite float of the model's number line: the model's stand-in for
\* sys.float_info.max, scaled to the small numbers the requests carry.
FloatMax == 16

\* The float values a request's numbers are drawn from; (-5) ** 2 is out of
\* the float range, 3 ** 2 is in it.
Numbers == {3, -5}

\* The delays of a request, in milliseconds.
Delays == {-3, 0, 4, 12}

VARIABLES
    \* ---- calculate -------------------------------------------------------
    cpc,             \* where the handler is: idle, gather, rerun, done, failed
    numbers,         \* data.numbers
    delays,          \* data.delays
    now,             \* perf_counter(), in milliseconds
    task,            \* the tasks asyncio.gather made, one per pair
    ready,           \* the event loop's FIFO of ready callbacks (0: the handler)
    outer,           \* the future gather returned: pending, result, exception
    results,         \* the list gather returns, by position
    start_parallel,
    parallel_time,
    start_seq,
    seq_time,
    seq_i,           \* the pair the sequential rerun is at
    seq_wait,        \* the rerun's current square_with_delay call
    response,        \* what the handler returned
    trace,           \* history: the waits started and ended, in order
    \* ---- create_appeal ---------------------------------------------------
    clock,           \* the local clock: the place in Instants it shows
    fs,              \* the file system: the appeals directory and its files
    last,            \* history: the last request, with the file system before it
    served,          \* history: the responses to the valid requests, in order
    \* ---- the validators on their own ------------------------------------
    input,           \* the body of a request
    verdict          \* what Appeal(**body) made of it

calcVars == << cpc, numbers, delays, now, task, ready, outer, results,
               start_parallel, parallel_time, start_seq, seq_time, seq_i,
               seq_wait, response, trace >>

appealVars == << clock, fs, last, served, input, verdict >>

vars == << calcVars, appealVars >>

\* ------------------------------------------------------------------------
\* Helpers
\* ------------------------------------------------------------------------

Min(a, b) == IF a <= b THEN a ELSE b

SetMin(S) == CHOOSE x \in S : \A y \in S : x <= y

SeqsUpTo(S, n) == UNION { [1..k -> S] : k \in 0..n }

None == [none |-> TRUE]

\* ------------------------------------------------------------------------
\* square_with_delay and the pieces of Python it uses
\* ------------------------------------------------------------------------

\* zip(data.numbers, data.delays): pairs by position, as many as the shorter.
zip(ns, ds) == [i \in 1..Min(Len(ns), Len(ds)) |-> << ns[i], ds[i] >>]

\* number ** 2 on floats: the product, or OverflowError when it is out of range.
pow2(number) ==
    IF number * number > FloatMax
    THEN [ok |-> FALSE, value |-> 0]
    ELSE [ok |-> TRUE, value |-> number * number]

\* round(x, 2) of a duration of t milliseconds, in hundredths of a second:
\* to the nearest hundredth, a tie going to the even one.
round2(t) ==
    LET q == t \div 10
        r == t % 10
    IN  IF r < 5 THEN q
        ELSE IF r > 5 THEN q + 1
        ELSE IF q % 2 = 0 THEN q ELSE q + 1

\* How long asyncio.sleep(delay) waits: a delay <= 0 only yields to the loop.
sleep_duration(delay) == IF delay <= 0 THEN 0 ELSE delay

\* asyncio.sleep(delay) sets a timer only for a positive delay.
sleep_sets_timer(delay) == delay > 0

\* The state of a wait that starts now.
start_wait(delay) ==
    [st    |-> IF sleep_sets_timer(delay) THEN "sleeping" ELSE "woken",
     start |-> now,
     wake  |-> now + sleep_duration(delay)]

ResultItem(number, square, delay, start, end) ==
    [number |-> number, square |-> square, delay |-> delay,
     time |-> round2(end - start)]

\* gather_store, were gather to collect results as they complete.
gather_store_in_completion_order(res, i, item) ==
    LET free == { j \in 1..Len(res) : res[j] = None }
    IN  [res EXCEPT ![SetMin(free)] = item]

\* Where gather puts the result of its i-th awaitable.
gather_store(res, i, item) == [res EXCEPT ![i] = item]

\* parallel_faster, were the comparison not strict.
parallel_faster_or_equal(pt, st) == pt <= st

\* parallel_time < seq_time
parallel_faster(pt, st) == pt < st

\* CalculateResponse, were total_time measured over the whole handler.
CalculateResponse_whole_handler(res, pt, st) ==
    [status |-> 200,
     results |-> res,
     total_time |-> round2(pt + st),
     parallel_faster_than_sequential |-> parallel_faster(pt, st)]

CalculateResponse(res, pt, st) ==
    [status |-> 200,
     results |-> res,
     total_time |-> round2(pt),
     parallel_faster_than_sequential |-> parallel_faster(pt, st)]

ServerError == [status |-> 500]

NoWait == [st |-> "none", start |-> 0, wake |-> 0]

Event(ev, ph, i) == [ev |-> ev, ph |-> ph, i |-> i, t |-> now]

\* ------------------------------------------------------------------------
\* calculate
\* ------------------------------------------------------------------------

InitCalc ==
    /\ cpc = "idle"
    /\ numbers = << >>
    /\ delays = << >>
    /\ now = 0
    /\ task = << >>
    /\ ready = << >>
    /\ outer = "pending"
    /\ results = << >>
    /\ start_parallel = 0
    /\ parallel_time = 0
    /\ start_seq = 0
    /\ seq_time = 0
    /\ seq_i = 0
    /\ seq_wait = NoWait
    /\ response = None
    /\ trace = << >>

\* Iteration k of the rerun loop, `for n, d in zip(...): await
\* square_with_delay(n, d)`, reached with the ready queue `base` and the
\* history `tr`: the call runs up to its sleep, or, past the last pair, the
\* handler measures seq_time and returns.
SeqIter(k, pairs, res, base, tr, pt, ss) ==
        IF k > Len(pairs)
        THEN /\ cpc' = "done"
             /\ seq_i' = k
             /\ seq_wait' = NoWait
             /\ ready' = base
             /\ seq_time' = now - ss
             /\ response' = CalculateResponse(res, pt, now - ss)
             /\ trace' = Append(tr, Event("respond", "seq", 0))
        ELSE /\ cpc' = "rerun"
             /\ seq_i' = k
             /\ seq_wait' = start_wait(pairs[k][2])
             /\ ready' = IF sleep_sets_timer(pairs[k][2])
                         THEN base ELSE Append(base, 0)
             /\ seq_time' = seq_time
             /\ response' = response
             /\ trace' = Append(tr, Event("start", "seq", k))

\* The handler from the return of gather to its next suspension.
AfterGather(pairs, res, base, sp) ==
    /\ parallel_time' = now - sp
    /\ start_seq' = now
    /\ SeqIter(1, pairs, res, base, trace, now - sp, now)

\* A request arrives: the handler runs to `await asyncio.gather(...)`. gather
\* wraps every coroutine in a task and schedules it; with no pair it returns
\* a finished future and the handler does not suspend.
Receive(ns, ds) ==
    /\ UNCHANGED appealVars
    /\ cpc = "idle"
    /\ numbers' = ns
    /\ delays' = ds
    /\ start_parallel' = now
    /\ task' = [i \in 1..Len(zip(ns, ds)) |-> [st |-> "created", start |-> 0, wake |-> 0]]
    /\ results' = [i \in 1..Len(zip(ns, ds)) |-> None]
    /\ now' = now
    /\ IF Len(zip(ns, ds)) = 0
       THEN /\ outer' = "result"
            /\ AfterGather(<< >>, << >>, << >>, now)
       ELSE /\ outer' = "pending"
            /\ cpc' = "gather"
            /\ ready' = [i \in 1..Len(zip(ns, ds)) |-> i]
            /\ UNCHANGED << parallel_time, start_seq, seq_time, seq_i, seq_wait,
                            response, trace >>

\* A task of the gather runs for the first time: square_with_delay up to its
\* sleep.
TaskStart(i) ==
    /\ UNCHANGED appealVars
    /\ ready # << >>
    /\ Head(ready) = i
    /\ i >= 1
    /\ task[i].st = "created"
    /\ task' = [task EXCEPT ![i] = start_wait(zip(numbers, delays)[i][2])]
    /\ ready' = IF sleep_sets_timer(zip(numbers, delays)[i][2])
                THEN Tail(ready) ELSE Append(Tail(ready), i)
    /\ trace' = Append(trace, Event("start", "par", i))
    /\ UNCHANGED << cpc, numbers, delays, now, outer, results, start_parallel,
                    parallel_time, start_seq, seq_time, seq_i, seq_wait, response >>

\* A task of the gather resumes after its sleep: it builds its ResultItem, or
\* raises; gather stores the result, and wakes the handler with the whole list
\* once every task is done or with the first exception.
TaskFinish(i) ==
    /\ UNCHANGED appealVars
    /\ ready # << >>
    /\ Head(ready) = i
    /\ i >= 1
    /\ task[i].st = "woken"
    /\ LET pair == zip(numbers, delays)[i]
           sq   == pow2(pair[1])
           item == ResultItem(pair[1], sq.value, pair[2], task[i].start, now)
           rest == { j \in 1..Len(task) : j # i }
       IN  /\ task' = [task EXCEPT ![i].st = IF sq.ok THEN "done" ELSE "raised"]
           /\ results' = IF sq.ok /\ outer = "pending"
                         THEN gather_store(results, i, item) ELSE results
           /\ outer' = IF outer # "pending" THEN outer
                       ELSE IF ~sq.ok THEN "exception"
                       ELSE IF \A j \in rest : task[j].st = "done" THEN "result"
                       ELSE "pending"
           /\ ready' = IF outer = "pending" /\ outer' # "pending"
                       THEN Append(Tail(ready), 0) ELSE Tail(ready)
    /\ trace' = Append(trace, Event("end", "par", i))
    /\ UNCHANGED << cpc, numbers, delays, now, start_parallel, parallel_time,
                    start_seq, seq_time, seq_i, seq_wait, response >>

\* The handler resumes from `await asyncio.gather(...)`: the exception of a
\* task propagates (a server error), or the handler goes on to the rerun.
GatherReturn ==
    /\ UNCHANGED appealVars
    /\ ready # << >>
    /\ Head(ready) = 0
    /\ cpc = "gather"
    /\ IF outer = "exception"
       THEN /\ cpc' = "failed"
            /\ response' = ServerError
            /\ ready' = Tail(ready)
            /\ trace' = Append(trace, Event("fail", "par", 0))
            /\ UNCHANGED << parallel_time, start_seq, seq_time, seq_i, seq_wait >>
       ELSE AfterGather(zip(numbers, delays), results, Tail(ready), start_parallel)
    /\ UNCHANGED << numbers, delays, now, task, outer, results, start_parallel >>

\* The handler resumes from the sleep of the rerun's call: the call builds
\* its ResultItem, which the loop drops, and the loop goes on.
SeqResume ==
    /\ UNCHANGED appealVars
    /\ ready # << >>
    /\ Head(ready) = 0
    /\ cpc = "rerun"
    /\ seq_wait.st = "woken"
    /\ LET sq == pow2(zip(numbers, delays)[seq_i][1])
       IN  IF sq.ok
           THEN SeqIter(seq_i + 1, zip(numbers, delays), results, Tail(ready),
                        Append(trace, Event("end", "seq", seq_i)),
                        parallel_time, start_seq)
           ELSE /\ cpc' = "failed"
                /\ response' = ServerError
                /\ ready' = Tail(ready)
                /\ trace' = Append(trace, Event("fail", "seq", seq_i))
                /\ UNCHANGED << seq_time, seq_i, seq_wait >>
    /\ UNCHANGED << numbers, delays, now, task, outer, results, start_parallel,
                    parallel_time, start_seq >>

\* The loop finds the timer of a task of the gather due.
TimerFire(i) ==
    /\ UNCHANGED appealVars
    /\ i \in 1..Len(task)
    /\ task[i].st = "sleeping"
    /\ task[i].wake <= now
    /\ task' = [task EXCEPT ![i].st = "woken"]
    /\ ready' = Append(ready, i)
    /\ UNCHANGED << cpc, numbers, delays, now, outer, results, start_parallel,
                    parallel_time, start_seq, seq_time, seq_i, seq_wait,
                    response, trace >>

\* The loop finds the timer of the rerun's call due.
TimerFireSeq ==
    /\ UNCHANGED appealVars
    /\ seq_wait.st = "sleeping"
    /\ seq_wait.wake <= now
    /\ seq_wait' = [seq_wait EXCEPT !.st = "woken"]
    /\ ready' = Append(ready, 0)
    /\ UNCHANGED << cpc, numbers, delays, now, task, outer, results,
                    start_parallel, parallel_time, start_seq, seq_time, seq_i,
                    response, trace >>

\* The wake-up times of the timers that are set.
Timers ==
    { task[i].wake : i \in { j \in 1..Len(task) : task[j].st = "sleeping" } }
    \cup (IF seq_wait.st = "sleeping" THEN { seq_wait.wake } ELSE {})

\* With nothing ready the loop blocks until its earliest timer is due, and
\* wakes then or up to MaxLate later.
Advance(late) ==
    /\ UNCHANGED appealVars
    /\ ready = << >>
    /\ Timers # {}
    /\ \A w \in Timers : w > now
    /\ now' = SetMin(Timers) + late
    /\ UNCHANGED << cpc, numbers, delays, task, ready, outer, results,
                    start_parallel, parallel_time, start_seq, seq_time, seq_i,
                    seq_wait, response, trace >>

NextCalc ==
    \/ \E ns \in SeqsUpTo(Numbers, MaxLen), ds \in SeqsUpTo(Delays, MaxLen) :
          Receive(ns, ds)
    \/ \E i \in 1..MaxLen + 1 : TaskStart(i)
    \/ \E i \in 1..MaxLen + 1 : TaskFinish(i)
    \/ GatherReturn
    \/ SeqResume
    \/ \E i \in 1..MaxLen + 1 : TimerFire(i)
    \/ TimerFireSeq
    \/ \E late \in 0..MaxLate : Advance(late)

\* ------------------------------------------------------------------------
\* Appeal: the text of the requests
\* ------------------------------------------------------------------------
\* A str is a sequence of Unicode code points; a date is a record of year,
\* month and day.

\* [А-ЯЁ]
CyrillicUpper == (1040..1071) \cup {1025}

\* [а-яё]
CyrillicLower == (1072..1103) \cup {1105}

\* \s of a str pattern: the Unicode white space.
ReWhitespace ==
    (9..13) \cup (28..32) \cup {133, 160, 5760} \cup (8192..8202)
        \cup {8232, 8233, 8239, 8287, 12288}

\* \d of a str pattern: the Unicode decimal digits (of them ASCII's and the
\* Arabic-Indic ones).
ReDigit == (48..57) \cup (1632..1641)

\* [\s\-\(\)]
PhoneSeparator == ReWhitespace \cup {45, 40, 41}

last_name_min_length == 2

last_name_max_length == 50

first_name_min_length == 2

first_name_max_length == 50

phone_min_length == 10

phone_max_length == 20

\* One capital and n - 1 small Cyrillic letters.
CyrillicName(n) == [i \in 1..n |-> IF i = 1 THEN 1048 ELSE 1074]

\* The names the requests carry.
NameInputs ==
    { << 1071, 1105 >>,                      \* "Яё"
      << 1055, 1077, 1090, 1088, 1086, 1074 >>,  \* "Петров"
      CyrillicName(50),
      CyrillicName(51),
      << 1048 >>,                            \* "И"
      << 73, 118 >>,                         \* "Iv"
      << 1080, 1074 >>,                      \* "ив"
      << 1048, 1074, 49 >>,                  \* "Ив1"
      << 1048, 1042 >>,                      \* "ИВ"
      << 1048, 1110 >> }                     \* "Иі"

\* The phones the requests carry.
PhoneInputs ==
    { << 43, 55, 57, 49, 54, 49, 50, 51, 52, 53, 54, 55 >>,   \* "+79161234567"
      << 43, 55, 32, 40, 57, 49, 54, 41, 32, 49, 50, 51, 45, 52, 53, 45, 54, 55 >>,
                                             \* "+7 (916) 123-45-67"
      << 97, 98, 99, 100, 101, 102, 103, 104, 105, 106 >>,    \* "abcdefghij"
      << 49, 50, 51, 52, 53, 54, 55, 56, 57 >>,               \* "123456789"
      [i \in 1..21 |-> 49],                  \* "1" 21 times
      << 40, 45, 45, 41, 32, 40, 45, 45, 41, 32 >>,           \* "(--) (--) "
      << 34, 92, 49, 50, 51, 52, 53, 54, 55, 56, 8, 1 >>,
                                             \* '"\12345678' U+0008 U+0001
      << 1632, 98, 99, 100, 101, 102, 103, 104, 105, 106 >> } \* "٠bcdefghij"

\* The e-mail addresses the requests carry.
EmailInputs ==
    { << 97, 64, 98, 46, 114, 117 >>,        \* "a@b.ru"
      << 97, 64, 66, 46, 114, 117 >>,        \* "a@B.ru"
      << 97, 98, 46, 114, 117 >>,            \* "ab.ru"
      << 97, 64, 98 >> }                     \* "a@b"

Date(y, m, d) == [year |-> y, month |-> m, day |-> d]

\* The birth dates the requests carry.
DateInputs ==
    { Date(1990, 5, 15), Date(2024, 12, 31), Date(2025, 1, 1), Date(2025, 1, 2) }

\* The instants the local clock shows, in order.
Instants ==
    << [date |-> Date(2024, 12, 31), hour |-> 23, minute |-> 59, second |-> 59],
       [date |-> Date(2025, 1, 1), hour |-> 0, minute |-> 0, second |-> 0],
       [date |-> Date(2025, 1, 1), hour |-> 0, minute |-> 0, second |-> 1] >>

\* date.today() at an instant.
today(instant) == Instants[instant].date

\* ------------------------------------------------------------------------
\* Appeal: the validators
\* ------------------------------------------------------------------------

\* [a-яё]+ from position i to the end of v.
RECURSIVE re_lower_plus(_, _)
re_lower_plus(v, i) ==
    /\ i <= Len(v)
    /\ v[i] \in CyrillicLower
    /\ (i = Len(v) \/ re_lower_plus(v, i + 1))

\* re_fullmatch_name, were it re.match: the pattern at the start of v only.
re_match_name(v) ==
    /\ Len(v) >= 2
    /\ v[1] \in CyrillicUpper
    /\ v[2] \in CyrillicLower

\* re.fullmatch(r'[А-ЯЁ][а-яё]+', v)
re_fullmatch_name(v) ==
    /\ Len(v) >= 1
    /\ v[1] \in CyrillicUpper
    /\ re_lower_plus(v, 2)

Valid(value) == [ok |-> TRUE, value |-> value]

Invalid(type) == [ok |-> FALSE, type |-> type]

\* Field(min_length=, max_length=) of a str field.
str_length(v, min_length, max_length) ==
    IF Len(v) < min_length THEN Invalid("string_too_short")
    ELSE IF Len(v) > max_length THEN Invalid("string_too_long")
    ELSE Valid(v)

validate_last_name(v) ==
    IF ~re_fullmatch_name(v) THEN Invalid("value_error") ELSE Valid(v)

validate_first_name(v) ==
    IF ~re_fullmatch_name(v) THEN Invalid("value_error") ELSE Valid(v)

\* a > b on dates
date_gt(a, b) ==
    \/ a.year > b.year
    \/ a.year = b.year /\ a.month > b.month
    \/ a.year = b.year /\ a.month = b.month /\ a.day > b.day

validate_birth_date(v, instant) ==
    IF date_gt(v, today(instant)) THEN Invalid("value_error") ELSE Valid(v)

IsNotPhoneSeparator(c) == c \notin PhoneSeparator

validate_phone(v) ==
    LET cleaned == SelectSeq(v, IsNotPhoneSeparator)
    IN  IF ~(\E i \in 1..Len(cleaned) : cleaned[i] \in ReDigit)
        THEN Invalid("value_error")
        ELSE Valid(cleaned)

\* EmailStr, as far as the addresses of the requests go: one "@" with
\* something before it and a dotted domain after it; the domain is returned
\* in lower case.
validate_email(v) ==
    LET ats == { i \in 1..Len(v) : v[i] = 64 }
        at  == CHOOSE i \in ats : TRUE
        dots == { i \in 1..Len(v) : v[i] = 46 /\ i > at + 1 /\ i < Len(v) }
    IN  IF Cardinality(ats) # 1 THEN Invalid("value_error")
        ELSE IF at = 1 \/ dots = {} THEN Invalid("value_error")
        ELSE Valid([i \in 1..Len(v) |->
                 IF i > at /\ v[i] \in 65..90 THEN v[i] + 32 ELSE v[i]])

\* A str field with length bounds and an "after" validator: the validator
\* runs only on a value within the bounds.
after(checked, validated) == IF checked.ok THEN validated ELSE checked

\* Appeal(**body) at an instant: every field is validated, and the errors of
\* all of them are collected.
Appeal(body, instant) ==
    LET field ==
            [last_name  |-> after(str_length(body.last_name, last_name_min_length,
                                             last_name_max_length),
                                  validate_last_name(body.last_name)),
             first_name |-> after(str_length(body.first_name, first_name_min_length,
                                             first_name_max_length),
                                  validate_first_name(body.first_name)),
             birth_date |-> validate_birth_date(body.birth_date, instant),
             phone      |-> after(str_length(body.phone, phone_min_length,
                                             phone_max_length),
                                  validate_phone(body.phone)),
             email      |-> validate_email(body.email)]
        errors == { f \in DOMAIN field : ~field[f].ok }
    IN  [errors |-> errors,
         value  |-> IF errors # {} THEN None
                    ELSE [f \in DOMAIN field |-> field[f].value]]

Body(ln, fn, bd, ph, em) ==
    [last_name |-> ln, first_name |-> fn, birth_date |-> bd, phone |-> ph,
     email |-> em]

\* ------------------------------------------------------------------------
\* The validators on their own
\* ------------------------------------------------------------------------

InitValidate ==
    /\ input \in { Body(ln, fn, bd, ph, em) :
                     ln \in NameInputs, fn \in NameInputs, bd \in DateInputs,
                     ph \in PhoneInputs, em \in EmailInputs }
    /\ clock \in DOMAIN Instants
    /\ verdict = None
    /\ fs = [dir |-> FALSE, files |-> << >>]
    /\ last = None
    /\ served = << >>
    /\ InitCalc

Validate ==
    /\ verdict = None
    /\ verdict' = Appeal(input, clock)
    /\ UNCHANGED << input, clock, fs, last, served, calcVars >>

NextValidate == Validate


\* ------------------------------------------------------------------------
\* create_appeal: the text it writes
\* ------------------------------------------------------------------------

\* The decimal digits of n, two or four of them.
two_digits(n) == << 48 + ((n \div 10) % 10), 48 + (n % 10) >>

four_digits(n) == two_digits(n \div 100) \o two_digits(n % 100)

\* date.isoformat(): YYYY-MM-DD
isoformat(d) ==
    four_digits(d.year) \o << 45 >> \o two_digits(d.month) \o << 45 >>
        \o two_digits(d.day)

\* datetime.now().strftime('%Y%m%d_%H%M%S')
strftime(instant) ==
    LET t == Instants[instant]
    IN  four_digits(t.date.year) \o two_digits(t.date.month)
            \o two_digits(t.date.day) \o << 95 >> \o two_digits(t.hour)
            \o two_digits(t.minute) \o two_digits(t.second)

\* f"appeal_{timestamp}.json"
appeal_filename(instant) ==
    << 97, 112, 112, 101, 97, 108, 95 >> \o strftime(instant)
        \o << 46, 106, 115, 111, 110 >>

\* The keys of the record, as str.
Key ==
    [last_name  |-> << 108, 97, 115, 116, 95, 110, 97, 109, 101 >>,
     first_name |-> << 102, 105, 114, 115, 116, 95, 110, 97, 109, 101 >>,
     birth_date |-> << 98, 105, 114, 116, 104, 95, 100, 97, 116, 101 >>,
     phone      |-> << 112, 104, 111, 110, 101 >>,
     email      |-> << 101, 109, 97, 105, 108 >>]

\* appeal.model_dump() with data['birth_date'] made its isoformat(): a dict
\* of str to str, as the sequence of its items.
appeal_data(appeal) ==
    << << Key.last_name, appeal.last_name >>,
       << Key.first_name, appeal.first_name >>,
       << Key.birth_date, isoformat(appeal.birth_date) >>,
       << Key.phone, appeal.phone >>,
       << Key.email, appeal.email >> >>

\* A hexadecimal digit, in lower case.
hex_digit(n) == IF n < 10 THEN 48 + n ELSE 87 + n

\* json_escape_char, were nothing escaped.
json_escape_char_raw(c) == << c >>

\* How json writes one character of a str with ensure_ascii=False.
json_escape_char(c) ==
    CASE c = 34 -> << 92, 34 >>
      [] c = 92 -> << 92, 92 >>
      [] c = 8  -> << 92, 98 >>
      [] c = 9  -> << 92, 116 >>
      [] c = 10 -> << 92, 110 >>
      [] c = 12 -> << 92, 102 >>
      [] c = 13 -> << 92, 114 >>
      [] c < 32 /\ c \notin {8, 9, 10, 12, 13} ->
             << 92, 117, 48, 48, hex_digit(c \div 16), hex_digit(c % 16) >>
      [] OTHER -> << c >>

RECURSIVE json_escape(_, _)
json_escape(s, i) ==
    IF i > Len(s) THEN << >>
    ELSE json_escape_char(s[i]) \o json_escape(s, i + 1)

json_string(s) == << 34 >> \o json_escape(s, 1) \o << 34 >>

RECURSIVE json_items(_, _)
json_items(data, i) ==
    IF i > Len(data) THEN << >>
    ELSE << 32, 32 >> \o json_string(data[i][1]) \o << 58, 32 >>
             \o json_string(data[i][2])
             \o (IF i < Len(data) THEN << 44, 10 >> ELSE << 10 >>)
             \o json_items(data, i + 1)

\* json.dump(data, f, ensure_ascii=False, indent=2)
json_dumps(data) ==
    IF Len(data) = 0 THEN << 123, 125 >>
    ELSE << 123, 10 >> \o json_items(data, 1) \o << 125 >>

\* ------------------------------------------------------------------------
\* Reading the file back: json.loads of an object of strings
\* ------------------------------------------------------------------------

JsonError == [ok |-> FALSE]

At(text, i) == IF i \in 1..Len(text) THEN text[i] ELSE -1

RECURSIVE skip_ws(_, _)
skip_ws(text, i) ==
    IF At(text, i) \in {32, 9, 10, 13} THEN skip_ws(text, i + 1) ELSE i

HexValue(c) ==
    IF c \in 48..57 THEN c - 48
    ELSE IF c \in 97..102 THEN c - 87
    ELSE IF c \in 65..70 THEN c - 55
    ELSE -1

\* The characters of a string literal from position i, after its opening quote.
RECURSIVE scan_string(_, _, _)
scan_string(text, i, acc) ==
    LET c == At(text, i)
        e == At(text, i + 1)
        h == [k \in 1..4 |-> HexValue(At(text, i + 1 + k))]
    IN  IF c = -1 \/ (c >= 0 /\ c < 32) THEN JsonError
        ELSE IF c = 34 THEN [ok |-> TRUE, value |-> acc, next |-> i + 1]
        ELSE IF c # 92 THEN scan_string(text, i + 1, Append(acc, c))
        ELSE IF e \in {34, 92, 47}
             THEN scan_string(text, i + 2, Append(acc, e))
        ELSE IF e = 98 THEN scan_string(text, i + 2, Append(acc, 8))
        ELSE IF e = 102 THEN scan_string(text, i + 2, Append(acc, 12))
        ELSE IF e = 110 THEN scan_string(text, i + 2, Append(acc, 10))
        ELSE IF e = 114 THEN scan_string(text, i + 2, Append(acc, 13))
        ELSE IF e = 116 THEN scan_string(text, i + 2, Append(acc, 9))
        ELSE IF e = 117 /\ \A k \in 1..4 : h[k] >= 0
             THEN scan_string(text, i + 6,
                      Append(acc, ((h[1] * 16 + h[2]) * 16 + h[3]) * 16 + h[4]))
        ELSE JsonError

\* A string literal at position i.
parse_string(text, i) ==
    IF At(text, i) # 34 THEN JsonError ELSE scan_string(text, i + 1, << >>)

\* The members of an object from position i, after its "{" or a ",".
RECURSIVE parse_members(_, _, _)
parse_members(text, i, acc) ==
    LET key   == parse_string(text, skip_ws(text, i))
        colon == skip_ws(text, key.next)
        val   == parse_string(text, skip_ws(text, colon + 1))
        sep   == skip_ws(text, val.next)
    IN  IF ~key.ok THEN JsonError
        ELSE IF At(text, colon) # 58 THEN JsonError
        ELSE IF ~val.ok THEN JsonError
        ELSE IF At(text, sep) = 44
             THEN parse_members(text, sep + 1,
                                Append(acc, << key.value, val.value >>))
        ELSE IF At(text, sep) = 125 /\ skip_ws(text, sep + 1) = Len(text) + 1
             THEN [ok |-> TRUE, value |-> Append(acc, << key.value, val.value >>)]
        ELSE JsonError

\* json.loads(text), for an object whose values are strings.
json_loads(text) ==
    LET open == skip_ws(text, 1)
        body == skip_ws(text, open + 1)
    IN  IF At(text, open) # 123 THEN JsonError
        ELSE IF At(text, body) = 125 /\ skip_ws(text, body + 1) = Len(text) + 1
             THEN [ok |-> TRUE, value |-> << >>]
        ELSE parse_members(text, body, << >>)

\* ------------------------------------------------------------------------
\* create_appeal
\* ------------------------------------------------------------------------

\* The most valid requests a behaviour handles.
MaxReq == 3

\* Where a request may meet a failure of the file system.
Faults == {"none", "makedirs", "open", "write"}

\* How much of the text reaches the file when a write fails: none of it, or
\* the first half.
Cuts == {0, 1}

\* os.makedirs("appeals", exist_ok=True)
makedirs(f) == [f EXCEPT !.dir = TRUE]

\* files with the file `name` holding `content`.
put(files, name, content) ==
    [n \in (DOMAIN files) \cup {name} |-> IF n = name THEN content ELSE files[n]]

\* write_file, were the file opened with 'a'.
write_file_append(f, name, content) ==
    [f EXCEPT !.files =
        put(f.files, name,
            (IF name \in DOMAIN f.files THEN f.files[name] ELSE << >>) \o content)]

\* open(filepath, 'w') and the writes up to the close: the file is created or
\* cut to nothing, and then holds what was written.
write_file(f, name, content) == [f EXCEPT !.files = put(f.files, name, content)]

\* The handler on a validated appeal.
create_appeal(appeal, f, instant, fault, cut) ==
    LET filename == appeal_filename(instant)
        data     == appeal_data(appeal)
        text     == json_dumps(data)
        written  == SubSeq(text, 1, cut * (Len(text) \div 2))
    IN  IF fault = "makedirs" THEN [fs |-> f, resp |-> ServerError]
        ELSE IF fault = "open" THEN [fs |-> makedirs(f), resp |-> ServerError]
        ELSE IF fault = "write"
             THEN [fs |-> write_file(makedirs(f), filename, written),
                   resp |-> ServerError]
        ELSE [fs   |-> write_file(makedirs(f), filename, text),
              resp |-> [status |-> 200, filename |-> filename, data |-> data]]

\* post_appeal, were the body validated inside the handler, after makedirs.
post_appeal_validating_late(body, f, instant, fault, cut) ==
    LET appeal == Appeal(body, instant)
    IN  IF fault = "makedirs" THEN [fs |-> f, resp |-> ServerError]
        ELSE IF appeal.errors # {}
             THEN [fs |-> makedirs(f),
                   resp |-> [status |-> 422, fields |-> appeal.errors]]
        ELSE create_appeal(appeal.value, f, instant, fault, cut)

\* POST /appeal/: the body is validated into an Appeal before the handler is
\* called; a body that fails gets the validation error and the handler does
\* not run.
post_appeal(body, f, instant, fault, cut) ==
    LET appeal == Appeal(body, instant)
    IN  IF appeal.errors # {}
        THEN [fs |-> f, resp |-> [status |-> 422, fields |-> appeal.errors]]
        ELSE create_appeal(appeal.value, f, instant, fault, cut)

\* The bodies the handler is given.
HandlerInputs ==
    { \* valid at both instants; its phone and e-mail are changed by validation
      Body(<< 1055, 1077, 1090, 1088, 1086, 1074 >>, << 1071, 1105 >>,
           Date(1990, 5, 15),
           << 43, 55, 32, 40, 57, 49, 54, 41, 32, 49, 50, 51, 45, 52, 53, 45, 54, 55 >>,
           << 97, 64, 66, 46, 114, 117 >>),
      \* valid from 2025-01-01; its phone needs escaping
      Body(<< 1071, 1105 >>, CyrillicName(50), Date(2025, 1, 1),
           << 34, 92, 49, 50, 51, 52, 53, 54, 55, 56, 8, 1 >>,
           << 97, 64, 98, 46, 114, 117 >>),
      \* never valid: last_name and phone fail
      Body(<< 73, 118 >>, << 1071, 1105 >>, Date(1990, 5, 15),
           << 97, 98, 99, 100, 101, 102, 103, 104, 105, 106 >>,
           << 97, 64, 98, 46, 114, 117 >>) }

\* What an earlier run may have left under the first instant's name.
OldText ==
    json_dumps(appeal_data(
        Body(CyrillicName(3), CyrillicName(4), Date(1980, 1, 1),
             << 56, 56, 48, 48 >>, << 97, 64, 98, 46, 114, 117 >>)))

InitAppeal ==
    /\ clock = 1
    /\ fs \in { [dir |-> FALSE, files |-> << >>],
                [dir |-> TRUE, files |-> << >>],
                [dir |-> TRUE, files |-> put(<< >>, appeal_filename(1), OldText)] }
    /\ last = None
    /\ served = << >>
    /\ input = None
    /\ verdict = None
    /\ InitCalc

\* One request, from its arrival to its response: the handler has no await.
PostAppeal(body, fault, cut) ==
    /\ Len(served) < MaxReq
    /\ LET r == post_appeal(body, fs, clock, fault, cut)
       IN  /\ fs' = r.fs
           /\ last' = [req |-> body, at |-> clock, before |-> fs, resp |-> r.resp]
           /\ served' = IF r.resp.status = 422 THEN served
                        ELSE Append(served, [at |-> clock, resp |-> r.resp])
    /\ UNCHANGED << clock, input, verdict, calcVars >>

\* The local clock shows the next second.
Tick ==
    /\ clock < Len(Instants)
    /\ clock' = clock + 1
    /\ UNCHANGED << fs, last, served, input, verdict, calcVars >>

NextAppeal ==
    \/ Tick
    \/ \E body \in HandlerInputs : PostAppeal(body, "none", 0)

NextAppealFs ==
    \/ Tick
    \/ \E body \in HandlerInputs, fault \in Faults :
          \E cut \in (IF fault = "write" THEN Cuts ELSE {0}) :
              PostAppeal(body, fault, cut)

\* ------------------------------------------------------------------------
\* Specifications
\* ------------------------------------------------------------------------

InitCalcOnly ==
    /\ InitCalc
    /\ clock = 1
    /\ fs = [dir |-> FALSE, files |-> << >>]
    /\ last = None
    /\ served = << >>
    /\ input = None
    /\ verdict = None

SpecCalc == InitCalcOnly /\ [][NextCalc]_vars

SpecAppeal == InitAppeal /\ [][NextAppeal]_vars

SpecAppealFs == InitAppeal /\ [][NextAppealFs]_vars

SpecValidate == InitValidate /\ [][NextValidate]_vars

\* ------------------------------------------------------------------------
\* Properties of calculate
\* ------------------------------------------------------------------------

\* The number of pairs a request has by position.
NPairs == Min(Len(numbers), Len(delays))

Finished == cpc \in {"done", "failed"}

\* The places of the history where wait i of a phase started or ended.
EvAt(ev, ph, i) ==
    { k \in DOMAIN trace : trace[k].ev = ev /\ trace[k].ph = ph /\ trace[k].i = i }

TimeOf(ev, ph, i) == trace[CHOOSE k \in EvAt(ev, ph, i) : TRUE].t

\* A wait of delay d in logical time: d, and nothing for a delay <= 0.
LogicalWait(d) == IF d <= 0 THEN 0 ELSE d

\* Every wait that has ended took exactly its logical time.
ExactWaits ==
    \A ph \in {"par", "seq"}, i \in 1..NPairs :
        EvAt("end", ph, i) # {} =>
            TimeOf("end", ph, i) - TimeOf("start", ph, i) = LogicalWait(delays[i])

\* The largest of the paired delays as they are written (0 without pairs).
MaxWrittenDelay ==
    IF NPairs = 0 THEN 0
    ELSE CHOOSE m \in { delays[i] : i \in 1..NPairs } :
             \A i \in 1..NPairs : delays[i] <= m

\* The longest of the paired waits (0 without pairs).
MaxLogicalWait ==
    IF NPairs = 0 THEN 0
    ELSE CHOOSE m \in { LogicalWait(delays[i]) : i \in 1..NPairs } :
             \A i \in 1..NPairs : LogicalWait(delays[i]) <= m

\* The pairs whose square is out of the float range.
Overflowing == { i \in 1..NPairs : numbers[i] * numbers[i] > FloatMax }

\* When the handler raised.
FailTime == trace[CHOOSE k \in DOMAIN trace : trace[k].ev = "fail"].t

\* No wait of the concurrent phase ends before every one of them has started.
AllStartBeforeAnyEnds ==
    \A k \in DOMAIN trace :
        (trace[k].ev = "end" /\ trace[k].ph = "par") =>
            \A i \in 1..NPairs : \E j \in 1..(k - 1) :
                trace[j].ev = "start" /\ trace[j].ph = "par" /\ trace[j].i = i

\* C1: for every request whose numbers and delays have the same length
\* (0 too) the response has len(numbers) items and each item's square is its
\* number times itself.
C1_EqualLengthsAllSquared ==
    (Finished /\ Len(numbers) = Len(delays)) =>
        /\ response.status = 200
        /\ Len(response.results) = Len(numbers)
        /\ \A i \in 1..Len(numbers) :
               response.results[i].square = numbers[i] * numbers[i]

\* C6, as claimed: in exact logical time every wait of the concurrent phase
\* starts before any ends, the phase ends max(delays) after its start (0 for
\* no pairs), and total_time is that duration, the rerun not included.
C6_FanInAtMaxDelay ==
    /\ AllStartBeforeAnyEnds
    /\ (cpc = "done" /\ ExactWaits) =>
           /\ parallel_time = MaxWrittenDelay
           /\ response.total_time = round2(MaxWrittenDelay)

\* C6, amended: in exact logical time every wait of the concurrent phase
\* starts before any ends; when the phase yields its results it ends after
\* the longest wait, max(0, max(delays)) (0 for no pairs), and total_time is
\* that duration rounded to hundredths, the rerun not included; when a task
\* raises, the phase ends with the first such task and nothing is measured.
C6_FanInAtLongestWait ==
    /\ AllStartBeforeAnyEnds
    /\ (cpc = "done" /\ ExactWaits) =>
           /\ Overflowing = {}
           /\ parallel_time = MaxLogicalWait
           /\ response.total_time = round2(MaxLogicalWait)
    /\ (cpc = "failed" /\ ExactWaits) =>
           /\ Overflowing # {}
           /\ response = ServerError
           /\ \E i \in Overflowing :
                  /\ FailTime - start_parallel = LogicalWait(delays[i])
                  /\ \A j \in Overflowing :
                         LogicalWait(delays[i]) <= LogicalWait(delays[j])

\* C6 witness: a finished request in exact logical time whose delays differ,
\* so that their sum is not their maximum, and whose rerun took time.
C6_Witness ==
    /\ cpc = "done"
    /\ ExactWaits
    /\ NPairs = 2
    /\ delays[1] > 0
    /\ delays[2] > 0
    /\ delays[1] # delays[2]
    /\ seq_time > parallel_time

\* C8: the rerun starts only after every wait of the concurrent phase has
\* ended; it runs the pairs one at a time in input order; the response is
\* sent only after the rerun has ended; the response carries the items of the
\* concurrent phase; and the flag is true exactly when the concurrent phase
\* took strictly less time than the rerun.
C8_RerunAfterFanInThenRespond ==
    /\ \A k \in DOMAIN trace :
           (trace[k].ph = "seq" /\ trace[k].ev = "start") =>
               /\ \A i \in 1..NPairs : \E j \in 1..(k - 1) :
                      trace[j].ev = "end" /\ trace[j].ph = "par" /\ trace[j].i = i
               /\ trace[k].i > 1 =>
                      /\ trace[k - 1].ev = "end"
                      /\ trace[k - 1].ph = "seq"
                      /\ trace[k - 1].i = trace[k].i - 1
               /\ trace[k].i = 1 =>
                      \A j \in 1..(k - 1) : trace[j].ph = "par"
    /\ \A k \in DOMAIN trace :
           (trace[k].ph = "seq" /\ trace[k].ev = "end") =>
               /\ trace[k - 1].ev = "start"
               /\ trace[k - 1].ph = "seq"
               /\ trace[k - 1].i = trace[k].i
    /\ (response # None /\ response.status = 200) =>
           /\ cpc = "done"
           /\ trace[Len(trace)].ev = "respond"
           /\ \A i \in 1..NPairs :
                  /\ EvAt("end", "seq", i) # {}
                  /\ response.results[i] =
                         [number |-> numbers[i],
                          square |-> numbers[i] * numbers[i],
                          delay  |-> delays[i],
                          time   |-> round2(TimeOf("end", "par", i)
                                            - TimeOf("start", "par", i))]
           /\ Len(response.results) = NPairs
           /\ LET began == trace[CHOOSE k \in DOMAIN trace : trace[k].ph = "seq"].t
                  rerun == IF NPairs = 0 THEN 0
                           ELSE TimeOf("end", "seq", NPairs) - TimeOf("start", "seq", 1)
              IN  /\ began = (IF NPairs = 0 THEN 0
                              ELSE SetMin({ -TimeOf("end", "par", i) : i \in 1..NPairs }) * (-1))
                  /\ response.parallel_faster_than_sequential
                         <=> (began - start_parallel < rerun)

\* C8 witness: a response to two pairs whose concurrent phase was measured
\* differently from the rerun of the same pair, with the flag true.
C8_Witness ==
    /\ cpc = "done"
    /\ NPairs = 2
    /\ response.parallel_faster_than_sequential
    /\ \E i \in 1..2 :
           TimeOf("end", "par", i) - TimeOf("start", "par", i)
               # TimeOf("end", "seq", i) - TimeOf("start", "seq", i)

\* C9: with lists of different lengths calculate raises no error and pairs
\* them by position up to the shorter: the response has min(len(numbers),
\* len(delays)) items, item i is built from numbers[i] and delays[i], and both
\* phases run exactly those pairs.
C9_MismatchTruncatesWithoutError ==
    (Finished /\ Len(numbers) # Len(delays)) =>
        /\ response.status = 200
        /\ Len(response.results) = NPairs
        /\ \A i \in 1..NPairs :
               /\ response.results[i].number = numbers[i]
               /\ response.results[i].delay = delays[i]
        /\ \A ph \in {"par", "seq"} :
               { trace[k].i : k \in { j \in DOMAIN trace :
                     trace[j].ph = ph /\ trace[j].ev = "start" } } = 1..NPairs

\* C10: the results are in input order whatever the order in which the
\* concurrent waits complete.
C10_ResultsInInputOrder ==
    cpc = "done" =>
        /\ Len(response.results) = NPairs
        /\ \A i \in 1..NPairs :
               /\ response.results[i].number = numbers[i]
               /\ response.results[i].delay = delays[i]

\* C10 witness: a response whose second wait ended before its first.
C10_Witness ==
    /\ cpc = "done"
    /\ NPairs = 2
    /\ EvAt("end", "par", 2) # {}
    /\ (CHOOSE k \in EvAt("end", "par", 2) : TRUE)
           < (CHOOSE k \in EvAt("end", "par", 1) : TRUE)
    /\ delays[1] # delays[2]

\* ------------------------------------------------------------------------
\* Properties of the Appeal validators and of create_appeal
\* ------------------------------------------------------------------------

\* The rule of last_name and first_name: 2 to 50 characters, one capital
\* Cyrillic letter (or Ё), then small Cyrillic letters (or ё) only.
NameRuleHolds(v) ==
    /\ Len(v) >= 2
    /\ Len(v) <= 50
    /\ v[1] \in CyrillicUpper
    /\ \A i \in 2..Len(v) : v[i] \in CyrillicLower

DateNumber(d) == d.year * 10000 + d.month * 100 + d.day

\* The rule of birth_date: not later than the current date.
BirthDateRuleHolds(d, instant) ==
    DateNumber(d) <= DateNumber(Instants[instant].date)

\* The rule of phone: 10 to 20 characters as given, and a digit left once
\* the white space, hyphens and parentheses are taken out.
PhoneRuleHolds(v) ==
    /\ Len(v) >= 10
    /\ Len(v) <= 20
    /\ \E i \in 1..Len(v) : v[i] \in ReDigit /\ v[i] \notin PhoneSeparator

\* The rule of email: the address is one EmailStr takes.
EmailRuleHolds(v) == validate_email(v).ok

\* The fields of a body whose rule is violated at an instant.
Violated(body, instant) ==
    (IF NameRuleHolds(body.last_name) THEN {} ELSE {"last_name"})
    \cup (IF NameRuleHolds(body.first_name) THEN {} ELSE {"first_name"})
    \cup (IF BirthDateRuleHolds(body.birth_date, instant) THEN {} ELSE {"birth_date"})
    \cup (IF PhoneRuleHolds(body.phone) THEN {} ELSE {"phone"})
    \cup (IF EmailRuleHolds(body.email) THEN {} ELSE {"email"})

\* The number a run of decimal digits of a text writes.
RECURSIVE Decimal(_, _, _)
Decimal(text, from, to) ==
    IF to < from THEN 0
    ELSE Decimal(text, from, to - 1) * 10 + (text[to] - 48)

\* text is the ISO-8601 form YYYY-MM-DD of the date d.
IsIsoDateOf(text, d) ==
    /\ Len(text) = 10
    /\ \A i \in {1, 2, 3, 4, 6, 7, 9, 10} : text[i] \in 48..57
    /\ text[5] = 45
    /\ text[8] = 45
    /\ Decimal(text, 1, 4) = d.year
    /\ Decimal(text, 6, 7) = d.month
    /\ Decimal(text, 9, 10) = d.day

\* C2: a request that violates a field rule ends in a client error, and the
\* file system is as it was before the request: no directory made, no file
\* made or changed.
C2_RejectedWithoutFileEffect ==
    (last # None /\ Violated(last.req, last.at) # {}) =>
        /\ last.resp.status = 422
        /\ fs = last.before

\* C2 witness: a request rejected for its birth date alone, with no appeals
\* directory before it.
C2_Witness ==
    /\ last # None
    /\ last.resp.status = 422
    /\ last.resp.fields = {"birth_date"}
    /\ ~last.before.dir

\* C3: a body is accepted exactly when its five field rules hold, and the
\* fields a rejection names are exactly the fields whose rule is violated.
C3_AcceptedIffAllRulesHold ==
    verdict # None =>
        /\ verdict.errors = Violated(input, clock)
        /\ (verdict.value # None) <=> (Violated(input, clock) = {})

\* C3 witness: a body rejected for two fields only, its birth date being
\* today's.
C3_Witness ==
    /\ verdict # None
    /\ verdict.errors = {"last_name", "phone"}
    /\ input.birth_date = today(clock)

\* C4: after a successful request the file the response names, parsed back
\* as JSON, is the data of the response, whose birth_date is the ISO-8601
\* text of the date.
C4_FileParsesBackToData ==
    (last # None /\ last.resp.status = 200) =>
        /\ last.resp.filename \in DOMAIN fs.files
        /\ json_loads(fs.files[last.resp.filename]).ok
        /\ json_loads(fs.files[last.resp.filename]).value = last.resp.data
        /\ \E i \in DOMAIN last.resp.data :
               /\ last.resp.data[i][1] = Key.birth_date
               /\ IsIsoDateOf(last.resp.data[i][2], last.req.birth_date)

\* C4 witness: a successful request whose phone holds a quote, a backslash
\* and control characters.
C4_Witness ==
    /\ last # None
    /\ last.resp.status = 200
    /\ \E i \in 1..Len(last.req.phone) : last.req.phone[i] = 34
    /\ \E i \in 1..Len(last.req.phone) : last.req.phone[i] = 92
    /\ \E i \in 1..Len(last.req.phone) : last.req.phone[i] < 32

\* The valid requests handled while the clock showed instant t.
ServedAt(t) == { k \in DOMAIN served : served[k].at = t }

\* C5: the valid requests handled within one second all succeed with the
\* same filename; there is one file for that second, and it holds the whole
\* record of the request handled last, not a mixture.
C5_SameSecondLastWins ==
    \A t \in DOMAIN Instants :
        Cardinality(ServedAt(t)) >= 2 =>
            LET names  == { served[k].resp.filename : k \in ServedAt(t) }
                latest == CHOOSE k \in ServedAt(t) : \A j \in ServedAt(t) : j <= k
            IN  /\ \A k \in ServedAt(t) : served[k].resp.status = 200
                /\ Cardinality(names) = 1
                /\ Cardinality(names \cap DOMAIN fs.files) = 1
                /\ \A n \in names :
                       /\ fs.files[n] = json_dumps(served[latest].resp.data)
                       /\ json_loads(fs.files[n]).ok
                       /\ json_loads(fs.files[n]).value = served[latest].resp.data

\* C5 witness: three requests within one second, the last two with different data.
C5_Witness ==
    \E t \in DOMAIN Instants :
        /\ Cardinality(ServedAt(t)) >= 3
        /\ \E j, k \in ServedAt(t) :
               /\ k = j + 1
               /\ \A i \in ServedAt(t) : i <= k
               /\ served[j].resp.data # served[k].resp.data

\* C7: every request either succeeds, the file holding the whole record, or
\* fails and leaves the file system as it was.
C7_AllOrNothing ==
    last # None =>
        \/ /\ last.resp.status = 200
           /\ last.resp.filename \in DOMAIN fs.files
           /\ fs.files[last.resp.filename] = json_dumps(last.resp.data)
        \/ /\ last.resp.status # 200
           /\ fs = last.before

====
